---- MODULE Spec2Model ----
(***************************************************************************)
(* Model of the embedded CUE sheet playlist plugin                         *)
(* (src/playlist/EmbeddedCuePlaylistPlugin.cxx): the tag selector          *)
(* embcue_tag_pair, the open sequence embcue_playlist_open_uri, the line   *)
(* feeder EmbeddedCuePlaylist::Read and embcue_playlist_close.             *)
(*                                                                         *)
(* Strings are sequences of one-character strings.  A pointer that may be  *)
(* NULL is the empty sequence (None) or a one-element sequence (Some(x)).  *)
(* A uri is a sequence of path tokens, "/" being the separator.            *)
(***************************************************************************)
EXTENDS Integers, Sequences, FiniteSets, TLC

\* ------------------------------------------------------------------ bounds

\* longest captured CUE sheet text that is enumerated in full
MaxLen == 5

\* most tag pairs a structured test file carries, over its three formats
MaxPairs == 2

\* read calls made after read has returned end-of-sequence
MaxEos == 2

\* ------------------------------------------------------------ basic values

None == <<>>
Some(x) == <<x>>
Val(o) == o[1]

CR == "\r"
LF == "\n"
NUL == "NUL"

\* characters of a CUE sheet text: "T" starts a TRACK command
Chars == {"T", "x", CR, LF}

TextsUpTo(n) == UNION {[1..k -> Chars] : k \in 0..n}

\* the example text TRACK 01 \r\n TRACK 02 \n
CueExample == <<"T", "1", CR, LF, "T", "2", LF>>

\* longer texts: three and four tracks, with text left after the track that
\* makes the parser report one
LongTexts ==
  { <<"T", LF, "T", LF, "T", LF, "x", LF, "T">>,
    <<"T", CR, LF, "T", CR, LF, "T", CR, LF, "x">>,
    <<"T", "x", LF, LF, "T", CR, "T", "x", CR, "T", LF, "x">> }

Texts == TextsUpTo(MaxLen) \cup {CueExample} \cup LongTexts

\* the file reference a CUE sheet carries inside its own text
CueRef == <<"data.wav">>

UpperCase == <<"A","B","C","D","E","F","G","H","I","J","K","L","M",
               "N","O","P","Q","R","S","T","U","V","W","X","Y","Z">>
LowerCase == <<"a","b","c","d","e","f","g","h","i","j","k","l","m",
               "n","o","p","q","r","s","t","u","v","w","x","y","z">>

\* g_ascii_tolower
AsciiToLower(c) ==
  IF \E i \in 1..26 : UpperCase[i] = c
    THEN LowerCase[CHOOSE i \in 1..26 : UpperCase[i] = c]
    ELSE c

\* g_ascii_strcasecmp(s1, s2): 0 when equal ignoring ASCII case, else nonzero
RECURSIVE g_ascii_strcasecmp(_, _)
g_ascii_strcasecmp(s1, s2) ==
  IF s1 = <<>> \/ s2 = <<>>
    THEN IF s1 = <<>> /\ s2 = <<>> THEN 0 ELSE 1
    ELSE IF AsciiToLower(Head(s1)) # AsciiToLower(Head(s2))
           THEN 1
           ELSE g_ascii_strcasecmp(Tail(s1), Tail(s2))

\* the literal "cuesheet" of the tag selector
KeyCuesheet == <<"c","u","e","s","h","e","e","t">>

\* faulty variant: any uri with a separator in it passes for absolute
g_path_is_absolute_AnySeparator(u) == \E i \in 1..Len(u) : u[i] = "/"

\* g_path_is_absolute(uri)
g_path_is_absolute(u) == Len(u) > 0 /\ u[1] = "/"

\* g_path_get_basename(uri): the last component, trailing separators dropped
RECURSIVE StripTrailing(_)
StripTrailing(u) ==
  IF u # <<>> /\ u[Len(u)] = "/" THEN StripTrailing(SubSeq(u, 1, Len(u) - 1)) ELSE u

RECURSIVE LastComponent(_)
LastComponent(u) ==
  IF u = <<>> \/ u[Len(u)] = "/"
    THEN <<>>
    ELSE Append(LastComponent(SubSeq(u, 1, Len(u) - 1)), u[Len(u)])

\* faulty variant: trailing separators are not dropped
g_path_get_basename_NoStrip(u) == IF u = <<>> THEN <<".">> ELSE LastComponent(u)

g_path_get_basename(u) ==
  IF u = <<>> THEN <<".">>
  ELSE IF StripTrailing(u) = <<>> THEN <<"/">>
  ELSE LastComponent(StripTrailing(u))

\* ------------------------------------------------------------------ inputs

Uris ==
  { <<"/", "music", "/", "album.flac">>,
    <<"/", "album.flac", "/">>,
    <<"music", "/", "album.flac">>,
    <<"http:", "/", "/", "host", "/", "album.flac">> }

TagNames ==
  { <<"C","U","E","S","H","E","E","T">>,
    <<"C","u","e","S","h","e","e","t">>,
    <<"C","U","E","S","H","E","E","T","S">> }

TagValues == { <<>>, <<"T", LF, "T">> }

Pair(n, v) == [name |-> n, value |-> v]

TagPairs == {Pair(n, v) : n \in TagNames, v \in TagValues}

MkTags(a, b, c) == [file |-> a, ape |-> b, id3 |-> c]

\* files with at most MaxPairs pairs in all, any names and a few values
StructFiles ==
  UNION { { MkTags(a, b, c) : a \in [1..i -> TagPairs], b \in [1..j -> TagPairs],
                               c \in [1..(n - i - j) -> TagPairs] } :
          <<n, i, j>> \in { w \in (0..MaxPairs) \X (0..MaxPairs) \X (0..MaxPairs) :
                            w[2] + w[3] <= w[1] } }

\* files with one CUESHEET pair, in the first or the last format
TextFiles ==
  { MkTags(<<Pair(KeyCuesheet, t)>>, <<>>, <<>>) : t \in Texts }
  \cup { MkTags(<<>>, <<>>, <<Pair(KeyCuesheet, t)>>) : t \in TextsUpTo(1) }

Files == StructFiles \cup TextFiles

\* ------------------------------------------------------------------- state

VARIABLES
  uri,        \* the uri given to open
  tags,       \* the tag pairs the file at uri holds, per tag format
  pc,         \* "init", "open" (provider returned), "absent", "closed"
  filename,   \* EmbeddedCuePlaylist::filename
  cuesheet,   \* EmbeddedCuePlaylist::cuesheet, the buffer read writes into
  next,       \* EmbeddedCuePlaylist::next, an offset into cuesheet (1-based)
  parser,     \* EmbeddedCuePlaylist::parser
  live,       \* an EmbeddedCuePlaylist object exists
  made,       \* number of EmbeddedCuePlaylist objects constructed
  scans,      \* the tag scans open has run, in order
  orig,       \* the tag value as it was captured
  fed,        \* every line passed to CueParser::Feed, in order
  finishes,   \* number of calls of CueParser::Finish
  calls       \* one record per read call, in order: the return path taken,
              \* the cursor before and after, the lines fed, the number of
              \* Finish calls and the song returned (None: end-of-sequence)

vars == <<uri, tags, pc, filename, cuesheet, next, parser, live, made, scans,
          orig, fed, finishes, calls>>

Init ==
  /\ uri \in Uris
  /\ tags \in Files
  /\ pc = "init"
  /\ filename = None
  /\ cuesheet = None
  /\ next = 0
  /\ parser = None
  /\ live = FALSE
  /\ made = 0
  /\ scans = <<>>
  /\ orig = None
  /\ fed = <<>>
  /\ finishes = 0
  /\ calls = <<>>

\* ------------------------------------------------------------ tag selector

\* faulty variant: the handler overwrites a value it has captured
embcue_tag_pair_LastWins(cs, name, value) ==
  IF g_ascii_strcasecmp(name, KeyCuesheet) = 0
    THEN Some(value)
    ELSE cs

\* faulty variant: the handler does not capture an empty value
embcue_tag_pair_SkipEmpty(cs, name, value) ==
  IF cs = None /\ g_ascii_strcasecmp(name, KeyCuesheet) = 0 /\ value # <<>>
    THEN Some(value)
    ELSE cs

\* embcue_tag_pair: the cuesheet field after the handler has seen one pair
embcue_tag_pair(cs, name, value) ==
  IF cs = None /\ g_ascii_strcasecmp(name, KeyCuesheet) = 0
    THEN Some(value)
    ELSE cs

\* a tag scanner: visits every pair of one format, in order, with the handler
RECURSIVE tag_scan(_, _)
tag_scan(cs, pairs) ==
  IF pairs = <<>>
    THEN cs
    ELSE tag_scan(embcue_tag_pair(cs, Head(pairs).name, Head(pairs).value),
                  Tail(pairs))

\* -------------------------------------------------------------------- open

\* faulty variant: the ID3 scan is tried before the APE scan
OpenScans_Id3First(t) ==
  LET c1 == tag_scan(None, t.file)
      c2 == IF c1 = None THEN tag_scan(c1, t.id3) ELSE c1
      c3 == IF c1 = None /\ c2 = None THEN tag_scan(c2, t.ape) ELSE c2
      ran == <<"file">>
             \o (IF c1 = None THEN <<"id3">> ELSE <<>>)
             \o (IF c1 = None /\ c2 = None THEN <<"ape">> ELSE <<>>)
  IN [cuesheet |-> c3, scans |-> ran]

\* faulty variant: the ID3 scan is left out
OpenScans_NoId3(t) ==
  LET c1 == tag_scan(None, t.file)
      c2 == IF c1 = None THEN tag_scan(c1, t.ape) ELSE c1
      ran == <<"file">> \o (IF c1 = None THEN <<"ape">> ELSE <<>>)
  IN [cuesheet |-> c2, scans |-> ran]

\* the scans of embcue_playlist_open_uri: the cuesheet captured and the
\* scans that ran
OpenScans(t) ==
  LET c1 == tag_scan(None, t.file)
      c2 == IF c1 = None THEN tag_scan(c1, t.ape) ELSE c1
      c3 == IF c1 = None /\ c2 = None THEN tag_scan(c2, t.id3) ELSE c2
      ran == <<"file">>
             \o (IF c1 = None THEN <<"ape">> ELSE <<>>)
             \o (IF c1 = None /\ c2 = None THEN <<"id3">> ELSE <<>>)
  IN [cuesheet |-> c3, scans |-> ran]

\* CueParser::CueParser
NewParser == [finished |-> None, previous |-> None, current |-> None, end |-> FALSE]

embcue_playlist_open_uri ==
  /\ pc = "init"
  /\ IF ~g_path_is_absolute(uri)
       THEN /\ pc' = "absent"
            /\ UNCHANGED <<filename, cuesheet, next, parser, live, made, scans, orig>>
       ELSE LET r == OpenScans(tags) IN
            /\ made' = made + 1
            /\ scans' = r.scans
            /\ IF r.cuesheet = None
                 THEN /\ pc' = "absent"
                      /\ live' = FALSE
                      /\ UNCHANGED <<filename, cuesheet, next, parser, orig>>
                 ELSE /\ pc' = "open"
                      /\ live' = TRUE
                      /\ filename' = Some(g_path_get_basename(uri))
                      /\ cuesheet' = r.cuesheet
                      /\ orig' = r.cuesheet
                      /\ next' = 1
                      /\ parser' = Some(NewParser)
  /\ UNCHANGED <<uri, tags, fed, finishes, calls>>

\* ------------------------------------------------------------- CUE parser

\* a track record as the parser builds it: the line that began it and the
\* source reference, which the parser takes from the CUE sheet itself
NewSong(line) == [line |-> line, uri |-> CueRef]

\* Song::ReplaceURI
ReplaceURI(song, fn) == [song EXCEPT !.uri = fn]

\* CueParser::Commit: a begun track becomes the previous one, the previous
\* one becomes the finished one
Commit(p) ==
  IF p.current = None
    THEN p
    ELSE [p EXCEPT !.finished = p.previous, !.previous = p.current, !.current = None]

\* CueParser::Feed: a line that starts with a TRACK command begins a track
Feed(p, line) ==
  IF line # <<>> /\ Head(line) = "T"
    THEN [Commit(p) EXCEPT !.current = Some(NewSong(line))]
    ELSE p

\* CueParser::Finish: flushes the begun track; later calls are ignored
Finish(p) == IF p.end THEN p ELSE [Commit(p) EXCEPT !.end = TRUE]

\* CueParser::Get: after Finish the previous track is delivered as well
Flushed(p) ==
  IF p.finished = None /\ p.end
    THEN [p EXCEPT !.finished = p.previous, !.previous = None]
    ELSE p

\* the song CueParser::Get returns (None for NULL), and the parser after it
GetSong(p) == Flushed(p).finished
GetRest(p) == [Flushed(p) EXCEPT !.finished = None]

\* -------------------------------------------------------------------- read

\* *p for a pointer at offset i of the buffer; the buffer ends with a NUL
At(buf, i) == IF i \in 1..Len(buf) THEN buf[i] ELSE NUL

\* strlen(p) for a pointer at offset i
RECURSIVE strlen(_, _)
strlen(buf, i) == IF At(buf, i) = NUL THEN 0 ELSE 1 + strlen(buf, i + 1)

\* faulty variant: only LF ends a line
RECURSIVE strpbrk_OnlyLF(_, _)
strpbrk_OnlyLF(buf, i) ==
  IF At(buf, i) = NUL THEN 0
  ELSE IF At(buf, i) = LF THEN i
  ELSE strpbrk_OnlyLF(buf, i + 1)

\* strpbrk(p, "\r\n") for a pointer at offset i: the offset of the first CR
\* or LF of the string, 0 for NULL
RECURSIVE strpbrk(_, _)
strpbrk(buf, i) ==
  IF At(buf, i) = NUL THEN 0
  ELSE IF At(buf, i) \in {CR, LF} THEN i
  ELSE strpbrk(buf, i + 1)

\* faulty variant: the line runs to the end of the buffer, past the marker
CString_ToEnd(buf, i) == SubSeq(buf, i, Len(buf))

\* the C string at offset i
CString(buf, i) == SubSeq(buf, i, i + strlen(buf, i) - 1)

\* faulty variant: the marker is written one character too far
Terminate_AfterEol(buf, eol) ==
  IF eol + 1 <= Len(buf) THEN [buf EXCEPT ![eol + 1] = NUL] ELSE [buf EXCEPT ![eol] = NUL]

\* faulty variant: the terminator is left in place
Terminate_Skipped(buf, eol) == buf

\* *eol = 0: the buffer with the terminator at offset eol overwritten
Terminate(buf, eol) == [buf EXCEPT ![eol] = NUL]

\* faulty variant: the cursor is put on the terminator, not past it
Advance_OntoEol(buf, nxt, eol) == IF eol # 0 THEN eol ELSE nxt + strlen(buf, nxt)

\* faulty variant: the cursor is put two characters past the terminator
Advance_SkipsTwo(buf, nxt, eol) == IF eol # 0 THEN eol + 2 ELSE nxt + strlen(buf, nxt)

\* faulty variant: a CR LF pair is stepped over as one terminator
Advance_PastCRLF(buf, nxt, eol) ==
  IF eol # 0
    THEN (IF At(buf, eol) = CR /\ At(buf, eol + 1) = LF THEN eol + 2 ELSE eol + 1)
    ELSE nxt + strlen(buf, nxt)

\* the new value of next after the line at offset nxt, whose terminator
\* strpbrk found at offset eol (0: none, the line runs to the end)
Advance(buf, nxt, eol) == IF eol # 0 THEN eol + 1 ELSE nxt + strlen(buf, nxt)

\* the loop of EmbeddedCuePlaylist::Read, from the state s of one call:
\* s.cuesheet, s.next, s.parser, the lines fed so far in s.lines
RECURSIVE ReadLoop(_, _)
ReadLoop(s, fn) ==
  IF At(s.cuesheet, s.next) = NUL
    THEN [s EXCEPT !.path = "finish"]
    ELSE LET line == s.next
             eol  == strpbrk(s.cuesheet, s.next)
             buf  == IF eol # 0 THEN Terminate(s.cuesheet, eol) ELSE s.cuesheet
             nxt  == Advance(s.cuesheet, s.next, eol)
             p    == Feed(s.parser, CString(buf, line))
             song == GetSong(p)
             t    == [s EXCEPT !.cuesheet = buf, !.next = nxt, !.parser = GetRest(p),
                               !.lines = Append(s.lines, CString(buf, line))]
         IN IF song # None
              THEN [t EXCEPT !.path = "fed", !.song = Some(ReplaceURI(Val(song), fn))]
              ELSE ReadLoop(t, fn)

\* faulty variant: Finish is not called again once the parser has ended
ReadFinish_SkipWhenEnded(s, fn) ==
  LET pf == Finish(s.parser)
  IN [s EXCEPT !.parser = GetRest(pf),
               !.nfinish = IF s.parser.end THEN s.nfinish ELSE s.nfinish + 1,
               !.song = IF GetSong(pf) # None
                          THEN Some(ReplaceURI(Val(GetSong(pf)), fn))
                          ELSE None]

\* faulty variant: the cursor steps back one character at the end of the buffer
ReadFinish_StepsBack(s, fn) ==
  LET pf == Finish(s.parser)
  IN [s EXCEPT !.parser = GetRest(pf),
               !.next = IF s.next > 1 THEN s.next - 1 ELSE s.next,
               !.nfinish = s.nfinish + 1,
               !.song = IF GetSong(pf) # None
                          THEN Some(ReplaceURI(Val(GetSong(pf)), fn))
                          ELSE None]

\* faulty variant: the cursor goes back to the start of the buffer at the end of it
ReadFinish_Rewind(s, fn) ==
  LET pf == Finish(s.parser)
  IN [s EXCEPT !.parser = GetRest(pf),
               !.next = 1,
               !.nfinish = s.nfinish + 1,
               !.song = IF GetSong(pf) # None
                          THEN Some(ReplaceURI(Val(GetSong(pf)), fn))
                          ELSE None]

\* the end of EmbeddedCuePlaylist::Read, reached when the loop has left no
\* text: Finish, then one more Get
ReadFinish(s, fn) ==
  LET pf == Finish(s.parser)
  IN [s EXCEPT !.parser = GetRest(pf),
               !.nfinish = s.nfinish + 1,
               !.song = IF GetSong(pf) # None
                          THEN Some(ReplaceURI(Val(GetSong(pf)), fn))
                          ELSE None]

\* faulty variant: a track the parser holds at the start does not end the call
Read_NoEarlyReturn(fn, buf, nxt, p) ==
  LET s0 == [cuesheet |-> buf, next |-> nxt, parser |-> GetRest(p), lines |-> <<>>,
             song |-> None, path |-> "held", nfinish |-> 0]
      s1 == ReadLoop(s0, fn)
  IN IF s1.path = "fed" THEN s1 ELSE ReadFinish(s1, fn)

\* EmbeddedCuePlaylist::Read on a provider with the given fields: the fields
\* afterwards, the song returned (None for NULL), the lines fed, the number
\* of Finish calls and the return path taken
Read(fn, buf, nxt, p) ==
  LET s0 == [cuesheet |-> buf, next |-> nxt, parser |-> GetRest(p), lines |-> <<>>,
             song |-> None, path |-> "held", nfinish |-> 0]
  IN IF GetSong(p) # None
       THEN [s0 EXCEPT !.song = GetSong(p)]
       ELSE LET s1 == ReadLoop(s0, fn)
            IN IF s1.path = "fed" THEN s1 ELSE ReadFinish(s1, fn)

\* number of read calls so far that returned end-of-sequence
EosCount == Cardinality({i \in 1..Len(calls) : calls[i].song = None})

embcue_playlist_read ==
  /\ pc = "open"
  /\ EosCount <= MaxEos
  /\ LET r == Read(Val(filename), Val(cuesheet), next, Val(parser)) IN
       /\ cuesheet' = Some(r.cuesheet)
       /\ next' = r.next
       /\ parser' = Some(r.parser)
       /\ fed' = fed \o r.lines
       /\ finishes' = finishes + r.nfinish
       /\ calls' = Append(calls, [path |-> r.path, from |-> next, to |-> r.next,
                                    lines |-> r.lines, nfinish |-> r.nfinish,
                                    song |-> r.song])
  /\ UNCHANGED <<uri, tags, pc, filename, live, made, scans, orig>>

\* ------------------------------------------------------------------- close

embcue_playlist_close ==
  /\ pc = "open"
  /\ pc' = "closed"
  /\ live' = FALSE
  /\ filename' = None
  /\ cuesheet' = None
  /\ parser' = None
  /\ next' = 0
  /\ UNCHANGED <<uri, tags, made, scans, orig, fed, finishes, calls>>

Next ==
  \/ embcue_playlist_open_uri
  \/ embcue_playlist_read
  \/ embcue_playlist_close

Spec == Init /\ [][Next]_vars

\* --------------------------------------------------------- claim vocabulary

\* the open call has returned
Opened == pc \in {"open", "absent", "closed"}

\* the captured text, and the offset one past its last character
Text == Val(orig)
EndOfText == Len(Text) + 1

\* the read calls that returned a track
TrackCalls == {i \in 1..Len(calls) : calls[i].song # None}

\* name equals "CUESHEET" ignoring ASCII case
IsCuesheetName(n) ==
  /\ Len(n) = Len(KeyCuesheet)
  /\ \A k \in 1..Len(n) : AsciiToLower(n[k]) = KeyCuesheet[k]

\* the value of the first pair of a sequence that carries the CUESHEET name
FirstMatch(pairs) ==
  LET I == {i \in 1..Len(pairs) : IsCuesheetName(pairs[i].name)}
  IN IF I = {} THEN None
     ELSE Some(pairs[CHOOSE i \in I : \A j \in I : i <= j].value)

\* ---------------------------------------------------------------------- C1

\* C1: every track a read call returns has its source reference equal to
\* the provider's filename, the base name of the uri given to open, on each
\* return path of read (track held at the start of the call, track produced
\* after feeding a line, track produced after finalize).
C1_EveryTrackRewritten ==
  \A i \in TrackCalls : Val(calls[i].song).uri = g_path_get_basename(uri)

\* ---------------------------------------------------------------------- C2

\* C2 as stated: finalize is invoked at most once over all read calls, and
\* exactly once by the time read has returned end-of-sequence.
C2_FinalizeAtMostOnce ==
  /\ finishes <= 1
  /\ EosCount >= 1 => finishes = 1

\* C2 amended: a read call invokes finalize at most once, exactly when it
\* returns by the path after the line loop, with the cursor at the end of the
\* text; every read call that returns end-of-sequence has invoked it once, so
\* it has been invoked at least once by the first end-of-sequence (exactly
\* once when the first read call returns end-of-sequence) and once more by
\* every later read call that returns end-of-sequence.
C2_FinalizePerExhaustedRead ==
  /\ \A i \in 1..Len(calls) :
       /\ calls[i].nfinish = (IF calls[i].path = "finish" THEN 1 ELSE 0)
       /\ calls[i].path = "finish" => calls[i].to = EndOfText
       /\ calls[i].song = None => calls[i].nfinish = 1
  /\ finishes = Cardinality({i \in 1..Len(calls) : calls[i].path = "finish"})
  /\ finishes >= EosCount
  /\ (Len(calls) = 1 /\ calls[1].song = None) => finishes = 1

\* finalize has been invoked more than once, the last time after an
\* end-of-sequence
C2_Witness ==
  /\ EosCount = 2
  /\ finishes >= 2
  /\ TrackCalls # {}

\* ---------------------------------------------------------------------- C3

\* C3: once a read call has returned end-of-sequence, every later read call
\* returns end-of-sequence, feeds no line and leaves the cursor unchanged.
C3_EndOfSequenceIsFinal ==
  \A i, j \in 1..Len(calls) :
    (i < j /\ calls[i].song = None) =>
      /\ calls[j].song = None
      /\ calls[j].lines = <<>>
      /\ calls[j].to = calls[j].from

\* a read call after an end-of-sequence, on a text that had lines and tracks
C3_Witness ==
  /\ EosCount >= 2
  /\ TrackCalls # {}
  /\ Len(fed) >= 2

\* ---------------------------------------------------------------------- C4

\* C4: open tries the scans in the order file tags, APE, ID3; the APE scan
\* runs only if the file scan captured nothing, the ID3 scan only if both
\* captured nothing; the captured cuesheet is the value of the
\* highest-priority format that has a CUESHEET pair.
C4_ScanPriority ==
  (Opened /\ made = 1) =>
    /\ scans \in {<<"file">>, <<"file", "ape">>, <<"file", "ape", "id3">>}
    /\ Len(scans) >= 2 => FirstMatch(tags.file) = None
    /\ Len(scans) >= 3 => FirstMatch(tags.ape) = None
    /\ orig = (IF FirstMatch(tags.file) # None THEN FirstMatch(tags.file)
               ELSE IF FirstMatch(tags.ape) # None THEN FirstMatch(tags.ape)
               ELSE FirstMatch(tags.id3))

\* two formats hold different CUESHEET values and the first one was captured
C4_Witness ==
  /\ pc = "open"
  /\ FirstMatch(tags.file) # None
  /\ FirstMatch(tags.ape) # None
  /\ FirstMatch(tags.ape) # FirstMatch(tags.file)
  /\ orig = FirstMatch(tags.file)
  /\ scans = <<"file">>

\* ---------------------------------------------------------------------- C5

\* the text with every two-character terminator CR LF replaced by LF
RECURSIVE ToLF(_)
ToLF(t) ==
  IF t = <<>> THEN <<>>
  ELSE IF Len(t) >= 2 /\ t[1] = CR /\ t[2] = LF THEN <<LF>> \o ToLF(SubSeq(t, 3, Len(t)))
  ELSE <<t[1]>> \o ToLF(Tail(t))

\* number of two-character terminators CR LF in the text
CountCRLF(t) == Cardinality({i \in 1..(Len(t) - 1) : t[i] = CR /\ t[i + 1] = LF})

\* the segments of a text between single terminator characters; what
\* follows the last terminator is a segment if it is not empty
RECURSIVE Segments(_)
Segments(t) ==
  LET T == {i \in 1..Len(t) : t[i] \in {CR, LF}}
      k == CHOOSE i \in T : \A j \in T : i <= j
  IN IF t = <<>> THEN <<>>
     ELSE IF T = {} THEN <<t>>
     ELSE <<SubSeq(t, 1, k - 1)>> \o Segments(SubSeq(t, k + 1, Len(t)))

NonEmptyLines(ls) == SelectSeq(ls, LAMBDA l : l # <<>>)

\* the text ends with a line that has no terminator
EndsUnterminated(t) == t # <<>> /\ t[Len(t)] \notin {CR, LF}

\* C5 as stated: the lines fed over all read calls are those fed for the same
\* text with LF in place of every CR LF (a two-character terminator yields no
\* additional line), and a final line without terminator is fed like a
\* terminated one.
C5_SameLinesForCRLF ==
  EosCount >= 1 =>
    /\ fed = Segments(ToLF(Text))
    /\ EndsUnterminated(Text) => fed = Segments(Text \o <<LF>>)

\* C5 amended: the non-empty lines fed over all read calls are those fed for
\* the same text with LF in place of every CR LF, and every CR LF feeds one
\* additional empty line (a text without CR LF feeds exactly its lines); a final line without terminator is fed like a
\* terminated one.
C5_SameNonEmptyLinesForCRLF ==
  EosCount >= 1 =>
    /\ CountCRLF(Text) = 0 => fed = Segments(ToLF(Text))
    /\ NonEmptyLines(fed) = NonEmptyLines(Segments(ToLF(Text)))
    /\ Len(fed) = Len(Segments(ToLF(Text))) + CountCRLF(Text)
    /\ EndsUnterminated(Text) => fed = Segments(Text \o <<LF>>)

\* all of a text with a CR LF terminator and an unterminated last line was fed
C5_Witness ==
  /\ EosCount >= 1
  /\ CountCRLF(Text) >= 1
  /\ EndsUnterminated(Text)
  /\ Len(NonEmptyLines(fed)) >= 2

\* ---------------------------------------------------------------------- C6

\* C6 as stated: when the captured CUESHEET value is the empty string open
\* fails; no provider with an empty cuesheet is returned.
C6_EmptyCuesheetFails ==
  pc = "open" => orig # Some(<<>>)

\* C6 amended: open on an absolute path fails exactly when no scanned format
\* holds a CUESHEET pair; a captured empty string opens a provider with an
\* empty cuesheet, whose cursor is at the end of the text and whose read calls
\* all return end-of-sequence without feeding a line.
C6_EmptyCuesheetOpens ==
  /\ (Opened /\ made = 1) =>
       (pc = "absent" <=>
          /\ FirstMatch(tags.file) = None
          /\ FirstMatch(tags.ape) = None
          /\ FirstMatch(tags.id3) = None)
  /\ (Opened /\ orig = Some(<<>>)) =>
       /\ pc \in {"open", "closed"}
       /\ pc = "open" => (cuesheet = Some(<<>>) /\ next = EndOfText)
       /\ fed = <<>>
       /\ TrackCalls = {}

\* a provider opened on an empty captured value has been read
C6_Witness ==
  /\ pc = "open"
  /\ orig = Some(<<>>)
  /\ Len(calls) >= 1

\* ---------------------------------------------------------------------- C7

UriOf(o) == IF o = None THEN None ELSE Val(o).uri

\* C7: with the text TRACK 01 \r\n TRACK 02 \n and filename album.flac the
\* read calls yield two tracks, both with source reference album.flac, and
\* then end-of-sequence.
C7_ExampleTwoTracks ==
  (orig = Some(CueExample) /\ g_path_get_basename(uri) = <<"album.flac">>
     /\ Len(calls) >= 3) =>
    /\ UriOf(calls[1].song) = <<"album.flac">>
    /\ UriOf(calls[2].song) = <<"album.flac">>
    /\ calls[3].song = None

\* ---------------------------------------------------------------------- C8

\* C8: on an absolute path whose file has no CUESHEET pair in any of the
\* three formats, open returns absent after each scan has run once, and no
\* provider and no parser remain.
C8_NoCuesheetIsAbsent ==
  (/\ Opened
   /\ g_path_is_absolute(uri)
   /\ \A f \in {"file", "ape", "id3"} :
        \A i \in 1..Len(tags[f]) : ~IsCuesheetName(tags[f][i].name)) =>
    /\ pc = "absent"
    /\ scans = <<"file", "ape", "id3">>
    /\ made = 1
    /\ ~live
    /\ filename = None /\ cuesheet = None /\ parser = None
    /\ calls = <<>>

\* open returned absent for a file that has tag pairs, none of them CUESHEET
C8_Witness ==
  /\ pc = "absent"
  /\ g_path_is_absolute(uri)
  /\ Len(tags.file) + Len(tags.ape) + Len(tags.id3) >= 2
  /\ Len(scans) = 3

\* ---------------------------------------------------------------------- C9

\* C9: for a uri that is not an absolute local path open returns absent
\* whatever tags the resource carries, runs no tag scan and creates no
\* provider.
C9_RelativeUriIsAbsent ==
  (Opened /\ uri[1] # "/") =>
    /\ pc = "absent"
    /\ scans = <<>>
    /\ made = 0
    /\ ~live
    /\ filename = None /\ cuesheet = None /\ parser = None

\* open returned absent for a relative uri whose file has a CUESHEET pair
C9_Witness ==
  /\ pc = "absent"
  /\ uri[1] # "/"
  /\ FirstMatch(tags.file) # None

\* --------------------------------------------------------------------- C10

\* the pairs the scans of open delivered to the tag selector, in order
RECURSIVE DeliveredBy(_)
DeliveredBy(fs) == IF fs = <<>> THEN <<>> ELSE tags[Head(fs)] \o DeliveredBy(Tail(fs))

Delivered == DeliveredBy(scans)

\* the cuesheet field after the first k delivered pairs
CapturedAfter(k) == tag_scan(None, SubSeq(Delivered, 1, k))

\* C10: the captured cuesheet is the value of the first delivered pair whose
\* name is CUESHEET ignoring ASCII case; a pair with another name, and every
\* pair delivered once a value is captured, leaves the captured value as it
\* was.
C10_FirstMatchWins ==
  (Opened /\ made = 1) =>
    /\ orig = FirstMatch(Delivered)
    /\ \A k \in 1..Len(Delivered) :
         /\ CapturedAfter(k) = FirstMatch(SubSeq(Delivered, 1, k))
         /\ ~IsCuesheetName(Delivered[k].name) => CapturedAfter(k) = CapturedAfter(k - 1)
         /\ CapturedAfter(k - 1) # None => CapturedAfter(k) = CapturedAfter(k - 1)

\* two CUESHEET pairs with different values were delivered; the first won
C10_Witness ==
  /\ pc = "open"
  /\ \E i, j \in 1..Len(Delivered) :
       /\ i < j
       /\ IsCuesheetName(Delivered[i].name)
       /\ IsCuesheetName(Delivered[j].name)
       /\ Delivered[i].name # Delivered[j].name
       /\ Delivered[i].value # Delivered[j].value
       /\ orig = Some(Delivered[i].value)
\* --------------------------------------------------------------------- C11

\* C11 as stated: no read call changes any character of the cuesheet buffer.
C11_BufferNeverWritten ==
  pc = "open" => cuesheet = orig

\* C11 amended: the read calls change no character of the cuesheet buffer
\* other than the CR and LF terminators before the cursor, each of which is
\* overwritten by the end-of-string marker; the buffer keeps its length.
C11_OnlyTerminatorsWritten ==
  pc = "open" =>
    /\ Len(Val(cuesheet)) = Len(Text)
    /\ \A i \in 1..Len(Text) :
         Val(cuesheet)[i] = (IF Text[i] \in {CR, LF} /\ i < next THEN NUL ELSE Text[i])

\* a read call has overwritten a terminator and left other characters, some
\* of them before the cursor
C11_Witness ==
  /\ pc = "open"
  /\ cuesheet # orig
  /\ \E i, j \in 1..Len(Text) :
       /\ i < j /\ j < next
       /\ Val(cuesheet)[i] = "T"
       /\ Val(cuesheet)[j] = NUL
\* --------------------------------------------------------------------- C12

\* C12: a read call made while the parser holds a completed track returns
\* that track, feeds no line, does not invoke finalize and leaves the cursor
\* (and the buffer) unchanged.
C12_HeldTrackReturnedAtOnce ==
  [][(pc = "open" /\ Len(calls') = Len(calls) + 1 /\ GetSong(Val(parser)) # None) =>
       /\ calls'[Len(calls')].song = GetSong(Val(parser))
       /\ fed' = fed
       /\ finishes' = finishes
       /\ next' = next
       /\ cuesheet' = cuesheet]_vars

\* a read call has returned a track the parser held, after lines were fed
C12_Witness ==
  /\ fed # <<>>
  /\ \E i \in 1..Len(calls) :
       /\ calls[i].path = "held"
       /\ calls[i].song # None
       /\ calls[i].lines = <<>>
\* --------------------------------------------------------------------- C13

\* the index of the first of the lines ls, from the k-th on, after whose feed
\* the parser p reports a track; 0 if none does
RECURSIVE FirstReport(_, _, _)
FirstReport(p, ls, k) ==
  IF k > Len(ls) THEN 0
  ELSE IF GetSong(Feed(p, ls[k])) # None THEN k
  ELSE FirstReport(GetRest(Feed(p, ls[k])), ls, k + 1)

\* the parser p after the lines ls have been fed, with a Get after each
RECURSIVE AfterFeeds(_, _)
AfterFeeds(p, ls) ==
  IF ls = <<>> THEN p ELSE AfterFeeds(GetRest(Feed(p, Head(ls))), Tail(ls))

\* the characters taken up by lines that each have one terminator
RECURSIVE Span(_)
Span(ls) == IF ls = <<>> THEN 0 ELSE Len(Head(ls)) + 1 + Span(Tail(ls))

\* C13: in a read call, when the parser reports a track after a feed, read
\* returns that track: the line is the last one fed in the call, finalize is
\* not invoked in the call, and the cursor is left right after that line,
\* past one terminator character if the line has one.
C13_ReturnsOnFirstReport ==
  [][(pc = "open" /\ Len(calls') = Len(calls) + 1 /\ GetSong(Val(parser)) = None) =>
       LET c  == calls'[Len(calls')]
           p0 == GetRest(Val(parser))
           k  == FirstReport(p0, c.lines, 1)
           n  == next + Span(c.lines)
       IN k # 0 =>
            /\ k = Len(c.lines)
            /\ c.song # None
            /\ Val(c.song).line =
                 Val(GetSong(Feed(AfterFeeds(p0, SubSeq(c.lines, 1, k - 1)), c.lines[k]))).line
            /\ c.nfinish = 0
            /\ finishes' = finishes
            /\ next' = (IF n - 1 <= Len(Text) THEN n ELSE n - 1)
            /\ n - 1 <= Len(Text) => Text[n - 1] \in {CR, LF}]_vars

\* a read call fed several lines and returned the track reported after the
\* last of them, a line with a two-character terminator, with text left
C13_Witness ==
  \E i \in 1..Len(calls) :
    /\ calls[i].path = "fed"
    /\ Len(calls[i].lines) >= 2
    /\ calls[i].to < EndOfText
    /\ Text[calls[i].to - 1] = CR
    /\ Text[calls[i].to] = LF
\* --------------------------------------------------------------------- C14

\* C14: over the read calls the cursor never decreases, lies between the
\* start and the end of the text (inclusive), and is never before the end of
\* the line most recently fed (the offset Span(fed) of its terminator).
C14_CursorMonotoneInBounds ==
  /\ \A i \in 1..Len(calls) :
       /\ 1 <= calls[i].from
       /\ calls[i].from <= calls[i].to
       /\ calls[i].to <= EndOfText
       /\ calls[i].from = (IF i = 1 THEN 1 ELSE calls[i - 1].to)
  /\ pc = "open" =>
       /\ next \in 1..EndOfText
       /\ next = (IF calls = <<>> THEN 1 ELSE calls[Len(calls)].to)
       /\ fed # <<>> => next >= Span(fed)

\* the cursor has moved forward in two read calls and stands inside the text
C14_Witness ==
  /\ pc = "open"
  /\ next < EndOfText
  /\ \E i, j \in 1..Len(calls) :
       /\ i < j
       /\ calls[i].from < calls[i].to
       /\ calls[j].from < calls[j].to
\* --------------------------------------------------------------------- C15

\* number of characters of the lines ls
RECURSIVE TotalLen(_)
TotalLen(ls) == IF ls = <<>> THEN 0 ELSE Len(Head(ls)) + TotalLen(Tail(ls))

\* number of terminator characters of a text
CountTerminators(t) == Cardinality({i \in 1..Len(t) : t[i] \in {CR, LF}})

\* C15: once read has returned end-of-sequence every character of the text
\* has been consumed exactly once: the lines fed, in order, are the maximal
\* segments of the text between single terminator characters, no fed line
\* contains CR or LF, and a non-empty last segment without terminator is fed
\* as the last line.
C15_AllSegmentsFedOnce ==
  EosCount >= 1 =>
    /\ fed = Segments(Text)
    /\ \A k \in 1..Len(fed) : \A i \in 1..Len(fed[k]) : fed[k][i] \notin {CR, LF, NUL}
    /\ TotalLen(fed) + CountTerminators(Text) = Len(Text)
    /\ pc = "open" => next = EndOfText
    /\ EndsUnterminated(Text) =>
         /\ fed # <<>>
         /\ fed[Len(fed)] # <<>>
         /\ fed[Len(fed)] = SubSeq(Text, Len(Text) - Len(fed[Len(fed)]) + 1, Len(Text))

\* end-of-sequence after a text with an empty line, a CR, an LF and a last
\* line without terminator
C15_Witness ==
  /\ EosCount >= 1
  /\ EndsUnterminated(Text)
  /\ \E k \in 1..Len(fed) : fed[k] = <<>>
  /\ \E i, j \in 1..Len(Text) : Text[i] = CR /\ Text[j] = LF
  /\ Len(fed) >= 4
\* --------------------------------------------------------------------- C16

\* the last run of tokens of a uri that holds no separator
BaseName(u) ==
  LET m == CHOOSE i \in 1..Len(u) : u[i] # "/" /\ \A j \in (i + 1)..Len(u) : u[j] = "/"
      a == CHOOSE i \in 1..m : /\ \A j \in i..m : u[j] # "/"
                               /\ (i = 1 \/ u[i - 1] = "/")
  IN SubSeq(u, a, m)

\* C16: right after a successful open the filename is the base name of the
\* uri, the cursor is at the start of the captured text, and the parser is
\* fresh: no line has been fed and finalize has not been invoked.
C16_FreshAfterOpen ==
  (pc = "open" /\ calls = <<>>) =>
    /\ filename = Some(BaseName(uri))
    /\ cuesheet = orig
    /\ next = 1
    /\ parser # None
    /\ Val(parser).finished = None
    /\ Val(parser).previous = None
    /\ Val(parser).current = None
    /\ ~Val(parser).end
    /\ fed = <<>>
    /\ finishes = 0

\* a provider just opened on a path that ends with a separator
C16_Witness ==
  /\ pc = "open"
  /\ calls = <<>>
  /\ uri[Len(uri)] = "/"
  /\ Text # <<>>
\* --------------------------------------------------------------------- C17

\* C17: every read call ends, with a track or end-of-sequence: each line it
\* feeds moves the cursor by at least one character, so a call feeds at most
\* as many lines as it consumes characters, and at most as many as there were
\* unconsumed characters at its start.
C17_LinesBoundedByCharacters ==
  \A i \in 1..Len(calls) :
    /\ Len(calls[i].lines) <= calls[i].to - calls[i].from
    /\ Len(calls[i].lines) <= EndOfText - calls[i].from
    /\ calls[i].to - calls[i].from >= TotalLen(calls[i].lines)

\* a read call fed three lines over exactly three characters
C17_Witness ==
  \E i \in 1..Len(calls) :
    /\ Len(calls[i].lines) >= 3
    /\ calls[i].to - calls[i].from = Len(calls[i].lines)
\* --------------------------------------------------------------------- C18

\* C18: no line is fed to the parser after finalize has been invoked:
\* finalize is invoked only with the cursor at the end of the text, and from
\* then on the cursor stays at the end.
C18_NoFeedAfterFinalize ==
  /\ \A i \in 1..Len(calls) :
       calls[i].nfinish >= 1 =>
         /\ calls[i].to = EndOfText
         /\ \A j \in (i + 1)..Len(calls) :
              /\ calls[j].lines = <<>>
              /\ calls[j].from = EndOfText
              /\ calls[j].to = EndOfText
  /\ (pc = "open" /\ finishes >= 1) => next = EndOfText

\* three read calls after the one that invoked finalize first, on a text
\* that had lines
C18_Witness ==
  /\ pc = "open"
  /\ fed # <<>>
  /\ \E i \in 1..Len(calls) : calls[i].nfinish >= 1 /\ i + 3 <= Len(calls)
\* --------------------------------------------------------------------- C19

\* C19: the only writes read makes to the cuesheet buffer replace a CR or LF
\* by the end-of-string marker, at an offset before the new cursor; in every
\* state the unconsumed part of the buffer, from the cursor on, equals the
\* same part of the text as it was captured.
C19_WritesBehindCursor ==
  /\ [][(pc = "open" /\ pc' = "open") =>
          /\ Len(Val(cuesheet')) = Len(Val(cuesheet))
          /\ \A i \in 1..Len(Val(cuesheet)) :
               Val(cuesheet')[i] # Val(cuesheet)[i] =>
                 /\ Val(cuesheet)[i] \in {CR, LF}
                 /\ Val(cuesheet')[i] = NUL
                 /\ i < next']_vars
  /\ [](pc = "open" =>
          SubSeq(Val(cuesheet), next, Len(Val(cuesheet))) = SubSeq(Text, next, Len(Text)))

\* terminators have been overwritten and text with a terminator is still
\* unconsumed
C19_Witness ==
  /\ pc = "open"
  /\ \E i \in 1..(next - 1) : Val(cuesheet)[i] = NUL
  /\ \E i \in next..Len(Text) : Val(cuesheet)[i] \in {CR, LF}
====
